---- MODULE Spec2Model ----
(***************************************************************************)
(* Model of the Persona service (app/services/persona_service.py) and of   *)
(* the /personas controller (app/controllers/persona_controller.py).       *)
(*                                                                         *)
(* A request is a sequence of steps; every statement that reads or writes  *)
(* the relational store is one step, so that requests served by different  *)
(* worker threads interleave between a query and the following commit.     *)
(* A Persona row carries id, first_name, email and birth_date; the other   *)
(* columns (last_name, phone, is_active, notes) are copied by the code     *)
(* exactly as first_name is and are left out.                              *)
(***************************************************************************)
EXTENDS Integers, Sequences, FiniteSets, TLC

VARIABLES db, nextId, usedIds, pc, req, obj, result, today, stats

vars == <<db, nextId, usedIds, pc, req, obj, result, today, stats>>

(***************************************************************************)
(* Bounds                                                                  *)
(***************************************************************************)
MaxId == 2          \* identifiers handed out in one run
MaxCantidad == 2    \* largest accepted bulk size that is tried
MaxRows == 3        \* rows of a collection the statistics are computed on

PoblarMax == 1000   \* controller limit on cantidad

Procs == {"t1", "t2"}

Names == {"a", "b"}
UpdateNames == {"b"}    \* the first names an update request carries
Dominios == {"x"}

NoDate == [y |-> 0, m |-> 0, d |-> 0]
NoEmail == <<"NULL">>
Hoy == [y |-> 2024, m |-> 6, d |-> 15]
GenBirthDates == {[y |-> Hoy.y - 30, m |-> 1, d |-> 1]}
PayloadBirthDates == GenBirthDates

\* f"{first_name.lower()}.{last_name.lower()}@{dominio}" (last name left out)
GenEmail(first_name, dominio) == <<first_name, "@", dominio>>

Emails == {GenEmail(n, d) : n \in Names, d \in Dominios}

NoRow == [id |-> 0, first_name |-> "", email |-> NoEmail, birth_date |-> NoDate]
NoReq == [op |-> "none"]
NoResult == [kind |-> "none", cause |-> "", row |-> NoRow, count |-> 0]
NoStats == [op |-> "none", dominios |-> <<>>, edad |-> [edad_promedio |-> 0, edad_minima |-> 0, edad_maxima |-> 0]]

Ok(row) == [kind |-> "ok", cause |-> "", row |-> row, count |-> 0]
OkCount(n) == [kind |-> "ok", cause |-> "", row |-> NoRow, count |-> n]
Err(kind) == [kind |-> kind, cause |-> "", row |-> NoRow, count |-> 0]
\* raise kind from e
ErrFrom(kind, cause) == [kind |-> kind, cause |-> cause, row |-> NoRow, count |-> 0]

PersonaNotFoundError == "PersonaNotFoundError"
EmailAlreadyExistsError == "EmailAlreadyExistsError"

(***************************************************************************)
(* The store                                                               *)
(***************************************************************************)
\* db.query(Persona).filter(Persona.id == persona_id).first()
ById(rows, id) == {r \in rows : r.id = id}

\* db.query(Persona).filter(Persona.email == email).first()
ByEmail(rows, email) == {r \in rows : r.email = email}

\* db.query(Persona).filter(Persona.email == email, Persona.id != id).first()
ByEmailOther(rows, email, id) == {r \in rows : r.email = email /\ r.id # id}

UniqueEmails_Off(rows) == TRUE

\* the uniqueness constraint on the email column, checked by the store at commit
UniqueEmails(rows) == \A r, s \in rows : r.email = s.email => r.id = s.id

NewId_MaxPlusOne(rows, next) ==
    IF rows = {} THEN 1
    ELSE 1 + (CHOOSE i \in {r.id : r \in rows} : \A r \in rows : r.id <= i)

\* the identifier the store gives to the next inserted row
NewId(rows, next) == next

ApplyData_EmailOnly(row, data) ==
    [f \in DOMAIN row |-> IF f \in DOMAIN data /\ f = "email" THEN data[f] ELSE row[f]]

\* for field, value in data.items(): setattr(obj, field, value)
ApplyData(row, data) ==
    [f \in DOMAIN row |-> IF f \in DOMAIN data THEN data[f] ELSE row[f]]

CreateOnIntegrityError_Unhandled == "IntegrityError"

\* what create_persona raises when db.commit() raises IntegrityError
CreateOnIntegrityError == EmailAlreadyExistsError

UpdateOnIntegrityError_Unhandled == "IntegrityError"

\* what update_persona raises when db.commit() raises IntegrityError
UpdateOnIntegrityError == EmailAlreadyExistsError

\* payload.model_dump(exclude_unset=True): the fields the request carries
UpdateDatas ==
    {<<>>}
    \cup {[first_name |-> n] : n \in UpdateNames}
    \cup {[email |-> e] : e \in Emails}
    \cup {[first_name |-> n, email |-> e] : n \in UpdateNames, e \in Emails}

Cantidades == (0 .. MaxCantidad) \cup {PoblarMax + 1}

\* the persona_id of a request: the id of a row, or one that no row has
MissingId == 0
ReqIds(rows) == {r.id : r \in rows} \cup {MissingId}

\* the requests of each endpoint
CreateRequests ==
    {[op |-> "create", first_name |-> n, email |-> e, birth_date |-> b] :
        n \in Names, e \in Emails, b \in PayloadBirthDates}
UpdateRequests(rows) ==
    {[op |-> "update", id |-> i, data |-> d] : i \in ReqIds(rows), d \in UpdateDatas}
DeleteRequests(rows) == {[op |-> "delete", id |-> i] : i \in ReqIds(rows)}
GetRequests(rows) == {[op |-> "get", id |-> i] : i \in ReqIds(rows)}
PoblarRequests == {[op |-> "poblar", cantidad |-> c] : c \in Cantidades}
ResetRequests == {[op |-> "reset"]}

\* the handler returns or raises
Finish(p, res) ==
    /\ pc' = [pc EXCEPT ![p] = "done"]
    /\ result' = [result EXCEPT ![p] = res]
    /\ obj' = [obj EXCEPT ![p] = NoRow]
    /\ UNCHANGED req

\* a worker thread takes request r off the router
Arrives(p, r) == pc[p] \in {"idle", "done"}

\* the handler of a new request returns or raises at its first statement
FinishFirst(p, r, res) ==
    /\ pc' = [pc EXCEPT ![p] = "done"]
    /\ result' = [result EXCEPT ![p] = res]
    /\ obj' = [obj EXCEPT ![p] = NoRow]
    /\ req' = [req EXCEPT ![p] = r]

\* the handler of a new request goes on after its first statement
GotoFirst(p, r, label) ==
    /\ pc' = [pc EXCEPT ![p] = label]
    /\ result' = [result EXCEPT ![p] = NoResult]
    /\ obj' = [obj EXCEPT ![p] = NoRow]
    /\ req' = [req EXCEPT ![p] = r]

Goto(p, label) ==
    /\ pc' = [pc EXCEPT ![p] = label]
    /\ UNCHANGED <<req, obj, result>>

\* after db.commit() only the identity of obj is used, by db.refresh(obj)
GotoRefresh(p, id) ==
    /\ pc' = [pc EXCEPT ![p] = "refresh"]
    /\ obj' = [obj EXCEPT ![p] = [NoRow EXCEPT !.id = id]]
    /\ req' = [req EXCEPT ![p] = [op |-> req[p].op]]
    /\ UNCHANGED result

Init ==
    /\ db = {}
    /\ nextId = 1
    /\ usedIds = {}
    /\ pc = [p \in Procs |-> "idle"]
    /\ req = [p \in Procs |-> NoReq]
    /\ obj = [p \in Procs |-> NoRow]
    /\ result = [p \in Procs |-> NoResult]
    /\ today = Hoy
    /\ stats = NoStats

\* create_persona, the optimistic check
CreateCheck(p, r) ==
    /\ Arrives(p, r)
    /\ nextId <= MaxId
    /\ IF ByEmail(db, r.email) # {}
         THEN FinishFirst(p, r, Err(EmailAlreadyExistsError))
         ELSE GotoFirst(p, r, "create_commit")
    /\ UNCHANGED <<db, nextId, usedIds, today, stats>>

\* create_persona, db.add(obj) and db.commit()
CreateCommit(p) ==
    /\ pc[p] = "create_commit"
    /\ LET row == [id |-> NewId(db, nextId), first_name |-> req[p].first_name,
                   email |-> req[p].email, birth_date |-> req[p].birth_date]
       IN IF UniqueEmails(db \cup {row})
            THEN /\ row.id <= MaxId
                 /\ db' = db \cup {row}
                 /\ nextId' = nextId + 1
                 /\ usedIds' = usedIds \cup {row.id}
                 /\ GotoRefresh(p, row.id)
            ELSE /\ Finish(p, ErrFrom(CreateOnIntegrityError, "IntegrityError"))
                 /\ UNCHANGED <<db, nextId, usedIds>>
    /\ UNCHANGED <<today, stats>>

\* db.refresh(obj) and return obj, in create_persona and update_persona
Refresh(p) ==
    /\ pc[p] = "refresh"
    /\ IF ById(db, obj[p].id) # {}
         THEN Finish(p, Ok(CHOOSE r \in ById(db, obj[p].id) : TRUE))
         ELSE Finish(p, Err("InvalidRequestError"))
    /\ UNCHANGED <<db, nextId, usedIds, today, stats>>

\* update_persona: whether the request changes the email obj was loaded with
EmailChanges(data, row) == "email" \in DOMAIN data /\ data.email # row.email

UpdateLookupOutcome_EmailFirst(rows, r) ==
    IF "email" \in DOMAIN r.data /\ ByEmail(rows, r.data.email) # {}
      THEN EmailAlreadyExistsError
      ELSE IF ById(rows, r.id) = {} THEN PersonaNotFoundError
      ELSE IF EmailChanges(r.data, CHOOSE t \in ById(rows, r.id) : TRUE)
      THEN "update_check"
      ELSE "update_commit"

\* update_persona up to the uniqueness query: the error raised, or the next step
UpdateLookupOutcome(rows, r) ==
    IF ById(rows, r.id) = {} THEN PersonaNotFoundError
    ELSE IF EmailChanges(r.data, CHOOSE t \in ById(rows, r.id) : TRUE)
    THEN "update_check"
    ELSE "update_commit"

\* update_persona, the lookup of the target and the comparison with obj.email
UpdateLookup(p, r) ==
    /\ Arrives(p, r)
    /\ LET out == UpdateLookupOutcome(db, r)
       IN IF out \in {PersonaNotFoundError, EmailAlreadyExistsError}
            THEN FinishFirst(p, r, Err(out))
            ELSE GotoFirst(p, r, out)
    /\ UNCHANGED <<db, nextId, usedIds, today, stats>>

\* update_persona, the uniqueness query for a changed email
UpdateCheck(p) ==
    /\ pc[p] = "update_check"
    /\ IF ByEmailOther(db, req[p].data.email, req[p].id) # {}
         THEN Finish(p, Err(EmailAlreadyExistsError))
         ELSE Goto(p, "update_commit")
    /\ UNCHANGED <<db, nextId, usedIds, today, stats>>

\* update_persona, the assignments and db.commit()
UpdateCommit(p) ==
    /\ pc[p] = "update_commit"
    /\ LET data == req[p].data
           old == ById(db, req[p].id)
           new == {ApplyData(r, data) : r \in old}
       IN IF old = {} /\ DOMAIN data # {}
            THEN /\ Finish(p, Err("StaleDataError"))
                 /\ UNCHANGED db
            ELSE IF UniqueEmails((db \ old) \cup new)
            THEN /\ db' = (db \ old) \cup new
                 /\ GotoRefresh(p, req[p].id)
            ELSE /\ Finish(p, ErrFrom(UpdateOnIntegrityError, "IntegrityError"))
                 /\ UNCHANGED db
    /\ UNCHANGED <<nextId, usedIds, today, stats>>

\* get_persona
GetPersona(p, r) ==
    /\ Arrives(p, r)
    /\ IF ById(db, r.id) = {}
         THEN FinishFirst(p, r, Err(PersonaNotFoundError))
         ELSE FinishFirst(p, r, Ok(CHOOSE t \in ById(db, r.id) : TRUE))
    /\ UNCHANGED <<db, nextId, usedIds, today, stats>>

\* delete_persona, the lookup of the target
DeleteLookup(p, r) ==
    /\ Arrives(p, r)
    /\ IF ById(db, r.id) = {}
         THEN FinishFirst(p, r, Err(PersonaNotFoundError))
         ELSE GotoFirst(p, r, "delete_commit")
    /\ UNCHANGED <<db, nextId, usedIds, today, stats>>

\* delete_persona, db.delete(obj) and db.commit()
DeleteCommit(p) ==
    /\ pc[p] = "delete_commit"
    /\ db' = db \ ById(db, req[p].id)
    /\ Finish(p, Ok(NoRow))
    /\ UNCHANGED <<nextId, usedIds, today, stats>>

Generated == [first_name : Names, dominio : Dominios, birth_date : GenBirthDates]

\* the rows poblar_personas builds: registros[k] gets the k-th new identifier
Registros(batch, rows, next) ==
    {[id |-> NewId(rows, next) + k - 1, first_name |-> batch[k].first_name,
      email |-> GenEmail(batch[k].first_name, batch[k].dominio),
      birth_date |-> batch[k].birth_date] : k \in DOMAIN batch}

\* the count poblar_personas returns
PoblarCount(batch) == Len(batch)

\* the /poblar endpoint with poblar_personas
Poblar(p, r) ==
    /\ Arrives(p, r)
    /\ nextId <= MaxId
    /\ IF r.cantidad <= 0 \/ r.cantidad > PoblarMax
         THEN /\ FinishFirst(p, r, Err("HTTP400"))
              /\ UNCHANGED <<db, nextId, usedIds>>
         ELSE \E batch \in [1 .. r.cantidad -> Generated] :
                LET registros == Registros(batch, db, nextId)
                IN IF UniqueEmails(db \cup registros)
                     THEN /\ nextId + r.cantidad - 1 <= MaxId
                          /\ db' = db \cup registros
                          /\ nextId' = nextId + r.cantidad
                          /\ usedIds' = usedIds \cup {t.id : t \in registros}
                          /\ FinishFirst(p, r, OkCount(PoblarCount(batch)))
                     ELSE /\ FinishFirst(p, r, Err("IntegrityError"))
                          /\ UNCHANGED <<db, nextId, usedIds>>
    /\ UNCHANGED <<today, stats>>

DeletedCount_AfterCommit(rows) == Cardinality(rows \ rows)

\* the count reset_personas returns
DeletedCount(rows) == Cardinality(rows)

\* the /reset endpoint with reset_personas
Reset(p, r) ==
    /\ Arrives(p, r)
    /\ db' = {}
    /\ FinishFirst(p, r, OkCount(DeletedCount(db)))
    /\ UNCHANGED <<nextId, usedIds, today, stats>>

(***************************************************************************)
(* Statistics                                                              *)
(***************************************************************************)
\* db.query(Persona).all(): the rows in the order of their identifiers
RECURSIVE AllPersonas(_)
AllPersonas(rows) ==
    IF rows = {} THEN <<>>
    ELSE LET first == CHOOSE r \in rows : \A s \in rows : r.id <= s.id
         IN <<first>> \o AllPersonas(rows \ {first})

\* str.split('@')
RECURSIVE Split(_)
Split(s) ==
    IF \A i \in 1 .. Len(s) : s[i] # "@" THEN <<s>>
    ELSE LET i == CHOOSE k \in 1 .. Len(s) :
                     s[k] = "@" /\ \A j \in 1 .. k - 1 : s[j] # "@"
         IN <<SubSeq(s, 1, i - 1)>> \o Split(SubSeq(s, i + 1, Len(s)))

\* whether p.email.split('@')[1] raises AttributeError or IndexError
DominioRaises(email) == email = NoEmail \/ Len(Split(email)) < 2

Dominio_Last(email) == Split(email)[Len(Split(email))]

\* p.email.split('@')[1]
Dominio(email) == Split(email)[2]

\* conteo[dominio] = conteo.get(dominio, 0) + 1
Contar(conteo, dominio) ==
    [k \in DOMAIN conteo \cup {dominio} |->
        IF k = dominio
          THEN (IF dominio \in DOMAIN conteo THEN conteo[dominio] ELSE 0) + 1
          ELSE conteo[k]]

\* the loop of get_stats_dominios
RECURSIVE DominiosLoop(_, _)
DominiosLoop(personas, conteo) ==
    IF personas = <<>> THEN conteo
    ELSE IF DominioRaises(Head(personas).email)
    THEN DominiosLoop(Tail(personas), conteo)
    ELSE DominiosLoop(Tail(personas), Contar(conteo, Dominio(Head(personas).email)))

get_stats_dominios(rows) == DominiosLoop(AllPersonas(rows), <<>>)

\* (hoy.month, hoy.day) < (p.birth_date.month, p.birth_date.day)
Precedes(hoy, birth) == hoy.m < birth.m \/ (hoy.m = birth.m /\ hoy.d < birth.d)

\* hoy.year - p.birth_date.year - ((hoy.month, hoy.day) < (...))
Edad(hoy, birth) == hoy.y - birth.y - (IF Precedes(hoy, birth) THEN 1 ELSE 0)

\* the loop of get_stats_edad
RECURSIVE EdadesLoop(_, _)
EdadesLoop(personas, hoy) ==
    IF personas = <<>> THEN <<>>
    ELSE IF Head(personas).birth_date # NoDate
    THEN <<Edad(hoy, Head(personas).birth_date)>> \o EdadesLoop(Tail(personas), hoy)
    ELSE EdadesLoop(Tail(personas), hoy)

RECURSIVE Sum(_)
Sum(seq) == IF seq = <<>> THEN 0 ELSE Head(seq) + Sum(Tail(seq))

Min(seq) == CHOOSE x \in {seq[i] : i \in DOMAIN seq} : \A i \in DOMAIN seq : x <= seq[i]
Max(seq) == CHOOSE x \in {seq[i] : i \in DOMAIN seq} : \A i \in DOMAIN seq : x >= seq[i]

Promedio_Rounded(edades) == (2 * Sum(edades) + Len(edades)) \div (2 * Len(edades))

\* sum(edades) // len(edades)
Promedio(edades) == Sum(edades) \div Len(edades)

ZeroEdad == [edad_promedio |-> 0, edad_minima |-> 0, edad_maxima |-> 0]

get_stats_edad(rows, hoy) ==
    IF rows = {} THEN ZeroEdad
    ELSE LET edades == EdadesLoop(AllPersonas(rows), hoy)
         IN IF edades = <<>> THEN ZeroEdad
            ELSE [edad_promedio |-> Promedio(edades),
                  edad_minima |-> Min(edades),
                  edad_maxima |-> Max(edades)]

\* the /estadisticas/dominios endpoint
GetStatsDominios ==
    /\ stats' = [op |-> "dominios", dominios |-> get_stats_dominios(db), edad |-> ZeroEdad]
    /\ UNCHANGED <<db, nextId, usedIds, pc, req, obj, result, today>>

\* the /estadisticas/edad endpoint
GetStatsEdad ==
    /\ stats' = [op |-> "edad", dominios |-> <<>>, edad |-> get_stats_edad(db, today)]
    /\ UNCHANGED <<db, nextId, usedIds, pc, req, obj, result, today>>

\* collections the statistics are computed on
StatPersonas ==
    << [email |-> <<"a", "@", "x">>, birth_date |-> [y |-> 1990, m |-> 6, d |-> 15]],
       [email |-> <<"b", "@", "x">>, birth_date |-> [y |-> 1990, m |-> 6, d |-> 16]],
       [email |-> <<"c", "@", "y">>, birth_date |-> [y |-> 2004, m |-> 5, d |-> 20]],
       [email |-> <<"a", "b">>, birth_date |-> NoDate],
       [email |-> <<"a", "@", "x", "@", "y">>, birth_date |-> [y |-> 2025, m |-> 6, d |-> 16]],
       [email |-> NoEmail, birth_date |-> [y |-> 2029, m |-> 1, d |-> 1]],
       [email |-> <<"b", "@", "y">>, birth_date |-> NoDate] >>

StatRow(i) ==
    [id |-> i, first_name |-> "a", email |-> StatPersonas[i].email,
     birth_date |-> StatPersonas[i].birth_date]

StatDbs ==
    {{StatRow(i) : i \in S} : S \in {T \in SUBSET DOMAIN StatPersonas : Cardinality(T) <= MaxRows}}

Todays == {Hoy, [y |-> 2024, m |-> 1, d |-> 1]}

InitStats ==
    /\ db \in StatDbs
    /\ nextId = Len(StatPersonas) + 1
    /\ usedIds = DOMAIN StatPersonas
    /\ pc = [p \in Procs |-> "idle"]
    /\ req = [p \in Procs |-> NoReq]
    /\ obj = [p \in Procs |-> NoRow]
    /\ result = [p \in Procs |-> NoResult]
    /\ today \in Todays
    /\ stats = NoStats

NextStats == GetStatsDominios \/ GetStatsEdad

SpecStats == InitStats /\ [][NextStats]_vars

(***************************************************************************)
(* Two or more create_persona calls for one email                          *)
(***************************************************************************)
RaceDbs(e) ==
    {{}} \cup {{[id |-> 1, first_name |-> n, email |-> o, birth_date |-> b]} :
                 n \in Names, o \in Emails \ {e}, b \in PayloadBirthDates}

InitRace ==
    \E e \in Emails :
        /\ db \in RaceDbs(e)
        /\ nextId = Cardinality(db) + 1
        /\ usedIds = {r.id : r \in db}
        /\ pc = [p \in Procs |-> "idle"]
        /\ req \in [Procs -> {r \in CreateRequests : r.email = e}]
        /\ obj = [p \in Procs |-> NoRow]
        /\ result = [p \in Procs |-> NoResult]
        /\ today = Hoy
        /\ stats = NoStats

NextRace ==
    \E p \in Procs :
        \/ pc[p] = "idle" /\ CreateCheck(p, req[p])
        \/ CreateCommit(p)
        \/ Refresh(p)

SpecRace == InitRace /\ [][NextRace]_vars

Next ==
    \E p \in Procs :
        \/ \E r \in CreateRequests : CreateCheck(p, r)
        \/ \E r \in UpdateRequests(db) : UpdateLookup(p, r)
        \/ \E r \in GetRequests(db) : GetPersona(p, r)
        \/ \E r \in DeleteRequests(db) : DeleteLookup(p, r)
        \/ \E r \in PoblarRequests : Poblar(p, r)
        \/ \E r \in ResetRequests : Reset(p, r)
        \/ CreateCommit(p)
        \/ Refresh(p)
        \/ UpdateCheck(p)
        \/ UpdateCommit(p)
        \/ DeleteCommit(p)

Spec == Init /\ [][Next]_vars

(***************************************************************************)
(* Properties                                                              *)
(***************************************************************************)
AllDone == \A p \in Procs : pc[p] = "done"
Winners == {p \in Procs : result[p].kind = "ok"}

\* C1: in every reachable state, whatever operations ran, interleaved or
\* ended in an error, no two persisted Persona rows have the same email.
C1_EmailUnique == \A r \in db : \A s \in db \ {r} : r.email # s.email

\* two rows are persisted and a request was just refused for a duplicate email
C1_Witness ==
    /\ Cardinality(db) = 2
    /\ \E p \in Procs : result[p].cause = "IntegrityError"

\* C2: of the create_persona calls for one email, run in sequence or
\* interleaved past the optimistic check, exactly one returns the persisted
\* row, every other one raises EmailAlreadyExistsError, and exactly one row
\* with that email is persisted.
C2_OneCreateWins ==
    AllDone =>
        /\ Cardinality(Winners) = 1
        /\ \A p \in Procs \ Winners : result[p].kind = EmailAlreadyExistsError
        /\ \A p \in Winners :
            /\ result[p].row \in db
            /\ Cardinality({r \in db : r.email = result[p].row.email}) = 1
            /\ \A q \in Procs \ Winners : req[q].email = result[p].row.email

\* both calls passed the check and the loser was refused by the constraint
C2_Witness ==
    /\ AllDone
    /\ \E p \in Procs : result[p].kind = "ok"
    /\ \E p \in Procs :
        result[p].kind = EmailAlreadyExistsError /\ result[p].cause = "IntegrityError"

Ids(rows) == {r.id : r \in rows}
Stepped(p) == pc'[p] # pc[p]

\* a step in which p takes a request of kind op and runs its first statement
First(p, op) ==
    /\ pc[p] \in {"idle", "done"}
    /\ pc'[p] # pc[p] \/ req'[p] # req[p] \/ result'[p] # result[p]
    /\ req'[p].op = op

\* the email of an update is not the target's and is held by another row
Conflict(p) ==
    /\ req[p].op = "update"
    /\ "email" \in DOMAIN req[p].data
    /\ \E t \in db : t.id = req[p].id /\ t.email # req[p].data.email
    /\ \E r \in db : r.id # req[p].id /\ r.email = req[p].data.email

\* C3: an update whose email differs from the target's and is held by another
\* row raises EmailAlreadyExistsError, at the uniqueness query or at the
\* commit, and no step of the failed update changes a persisted field.
C3_UpdateConflict ==
    [][\A p \in Procs :
        /\ (pc[p] \in {"update_check", "update_commit"} /\ Stepped(p) /\ Conflict(p))
              => /\ pc'[p] = "done"
                 /\ result'[p].kind = "EmailAlreadyExistsError"
                 /\ db' = db
        /\ (First(p, "update") \/ (pc[p] = "update_check" /\ Stepped(p))) => db' = db
      ]_vars

\* an update of first_name and email was refused by the constraint at commit
\* and the target still has its first_name and email
C3_Witness ==
    \E p \in Procs :
        /\ pc[p] = "done" /\ req[p].op = "update"
        /\ result[p].kind = EmailAlreadyExistsError
        /\ result[p].cause = "IntegrityError"
        /\ DOMAIN req[p].data = {"first_name", "email"}
        /\ \E t \in db : /\ t.id = req[p].id
                         /\ t.first_name # req[p].data.first_name
                         /\ t.email # req[p].data.email

\* C4: get, delete and update of an id that no row has raise
\* PersonaNotFoundError, whatever fields the update carries, and leave the
\* rows as they are.
C4_NotFound ==
    [][\A p \in Procs :
        (/\ First(p, "get") \/ First(p, "delete") \/ First(p, "update")
         /\ \A r \in db : r.id # req'[p].id)
            => /\ pc'[p] = "done"
               /\ result'[p].kind = "PersonaNotFoundError"
               /\ db' = db
      ]_vars

\* an update of a missing id that carries an email in use was refused as not found
C4_Witness ==
    \E p \in Procs :
        /\ pc[p] = "done" /\ req[p].op = "update"
        /\ result[p].kind = "PersonaNotFoundError"
        /\ "email" \in DOMAIN req[p].data
        /\ \E r \in db : r.email = req[p].data.email
        /\ \A r \in db : r.id # req[p].id

\* C5: poblar with cantidad in 1..1000 inserts exactly cantidad rows and
\* returns cantidad, also when a generated email is already persisted or is
\* generated twice in the batch.
C5_PoblarInsertsAll ==
    [][\A p \in Procs :
        (/\ First(p, "poblar")
         /\ req'[p].cantidad >= 1 /\ req'[p].cantidad <= 1000)
            => /\ result'[p].kind = "ok"
               /\ result'[p].count = req'[p].cantidad
               /\ Cardinality(db') = Cardinality(db) + req'[p].cantidad
      ]_vars

\* C6: reset returns the number of rows the collection held and leaves it
\* empty, and never fails.
C6_ResetAll ==
    [][\A p \in Procs :
        First(p, "reset")
            => /\ pc'[p] = "done"
               /\ result'[p].kind = "ok"
               /\ result'[p].count = Cardinality(db)
               /\ db' = {}
      ]_vars

\* a reset returned 2 and the collection is empty
C6_Witness ==
    \E p \in Procs :
        /\ pc[p] = "done" /\ req[p].op = "reset"
        /\ result[p].count = 2
        /\ db = {}

\* C7: no update changes the id of a row, and a row inserted by create or
\* poblar never gets an id that an earlier row had, deleted or not.
C7_IdsStable ==
    [][/\ \A p \in Procs :
            (pc[p] = "update_commit" /\ Stepped(p)) => Ids(db') = Ids(db)
       /\ (Ids(db') \ Ids(db)) \cap usedIds = {}
       /\ Cardinality(db') = Cardinality(Ids(db'))
      ]_vars

\* a reset deleted one row and a later create has inserted a row
C7_Witness ==
    \E p, q \in Procs :
        /\ pc[q] = "done" /\ req[q].op = "reset" /\ result[q].count = 1
        /\ pc[p] = "refresh" /\ req[p].op = "create"
        /\ obj[p].id \in Ids(db)
        /\ usedIds \ Ids(db) # {}

\* C8: a successful update sets, on the row with the id, the fields of the
\* request to the supplied values and changes no other field and no other
\* row; an update to the target's own email never raises
\* EmailAlreadyExistsError.
C8_UpdateFrame ==
    [][\A p \in Procs :
        /\ (pc[p] = "update_commit" /\ pc'[p] = "refresh")
              => \A t \in db :
                   IF t.id # req[p].id THEN t \in db'
                   ELSE \E u \in db' :
                          /\ db' = (db \ {t}) \cup {u}
                          /\ u.id = t.id
                          /\ u.birth_date = t.birth_date
                          /\ u.first_name = IF "first_name" \in DOMAIN req[p].data
                                              THEN req[p].data.first_name
                                              ELSE t.first_name
                          /\ u.email = IF "email" \in DOMAIN req[p].data
                                         THEN req[p].data.email
                                         ELSE t.email
        /\ (/\ pc[p] \in {"update_check", "update_commit"}
            /\ Stepped(p)
            /\ "email" \in DOMAIN req[p].data
            /\ \E t \in db : t.id = req[p].id /\ t.email = req[p].data.email)
              => result'[p].kind # "EmailAlreadyExistsError"
        /\ (/\ First(p, "update")
            /\ "email" \in DOMAIN req'[p].data
            /\ \E t \in db : t.id = req'[p].id /\ t.email = req'[p].data.email)
              => result'[p].kind # "EmailAlreadyExistsError"
      ]_vars

\* an update has committed a new first_name on a row that a get had returned
\* with the other first_name and the same email
C8_Witness ==
    \E p, q \in Procs :
        /\ pc[p] = "refresh" /\ req[p].op = "update"
        /\ pc[q] = "done" /\ req[q].op = "get" /\ result[q].kind = "ok"
        /\ result[q].row.id = obj[p].id
        /\ \E u \in db : /\ u.id = obj[p].id
                         /\ u.first_name # result[q].row.first_name
                         /\ u.email = result[q].row.email

WithBirth(rows) == {r \in rows : r.birth_date # NoDate}

\* current year minus birth year, minus one before the birthday
AgeOf(r) ==
    today.y - r.birth_date.y
    - (IF 100 * today.m + today.d < 100 * r.birth_date.m + r.birth_date.d THEN 1 ELSE 0)

RECURSIVE AgeSum(_)
AgeSum(rows) ==
    IF rows = {} THEN 0
    ELSE LET r == CHOOSE x \in rows : TRUE IN AgeOf(r) + AgeSum(rows \ {r})

\* C9: the age statistics are the minimum, the maximum and floor(sum / count)
\* of the ages of exactly the rows with a birth date, and all 0 when there is
\* no such row.
C9_AgeStats ==
    stats.op = "edad" =>
        LET Q == WithBirth(db)
            n == Cardinality(Q)
            e == stats.edad
        IN IF Q = {}
             THEN e.edad_promedio = 0 /\ e.edad_minima = 0 /\ e.edad_maxima = 0
             ELSE /\ \E r \in Q : AgeOf(r) = e.edad_minima
                  /\ \A r \in Q : AgeOf(r) >= e.edad_minima
                  /\ \E r \in Q : AgeOf(r) = e.edad_maxima
                  /\ \A r \in Q : AgeOf(r) <= e.edad_maxima
                  /\ e.edad_promedio * n <= AgeSum(Q)
                  /\ AgeSum(Q) < (e.edad_promedio + 1) * n

\* the ages sum to a negative number that the count does not divide, one row
\* has no birth date and one has its birthday later in the year
C9_Witness ==
    /\ stats.op = "edad"
    /\ \E r \in db : r.birth_date = NoDate
    /\ \E r \in WithBirth(db) : today.m = r.birth_date.m /\ today.d < r.birth_date.d
    /\ AgeSum(WithBirth(db)) < 0
    /\ stats.edad.edad_promedio * Cardinality(WithBirth(db)) # AgeSum(WithBirth(db))

HasAt(email) == email # NoEmail /\ \E i \in 1 .. Len(email) : email[i] = "@"
FirstAt(email) == CHOOSE i \in 1 .. Len(email) : email[i] = "@" /\ \A j \in 1 .. i - 1 : email[j] # "@"

\* the portion of the email after its "@"
AfterAt(email) == SubSeq(email, FirstAt(email) + 1, Len(email))

\* the portion of the email between its first "@" and the next one, if any
AfterAtToNextAt(email) ==
    LET rest == AfterAt(email)
    IN IF HasAt(rest) THEN SubSeq(rest, 1, FirstAt(rest) - 1) ELSE rest

RECURSIVE ValueSum(_, _)
ValueSum(f, keys) ==
    IF keys = {} THEN 0
    ELSE LET k == CHOOSE x \in keys : TRUE IN f[k] + ValueSum(f, keys \ {k})

====
